---- MODULE Spec2Model ----
(***************************************************************************)
(* Model of the llm-wars generation endpoint (POST /api/generate): the     *)
(* stream orchestrator, its per-model workers (streamOneModel), the        *)
(* NDJSON response writer and the timers they use.                         *)
(*                                                                         *)
(* JavaScript runs each callback to completion, so one action is the code  *)
(* executed between two suspension points (await / timer callback).        *)
(* The mutable variables of the closure are gathered in a record (Cur) so  *)
(* that write, safeEnd, markModelDone and flushEventData are operators     *)
(* from state to state that compose the way the code calls them.           *)
(***************************************************************************)
EXTENDS Integers, Sequences, FiniteSets, TLC

\* ---------------------------------------------------------------- bounds
MaxFrames == 2      \* SSE frames the upstreams deliver in one response
MaxPings  == 1      \* keepalive pings written in one response

\* Temperatures are counted in tenths: 7 is 0.7, 20 is 2.
DefaultTemperature == 7
MinTemperature == 0
MaxTemperature == 20

\* JSON null / undefined of an optional field
Null == "<null>"

\* Value of a part of the system that takes no part in a behaviour.
Unused == "<unused>"

VARIABLES
    models,          \* body.models, the request's model list
    main,            \* position of ReadableStream.start: accepted, awaitAll, done
    log,             \* lines enqueued on the response body, in order
    closed,          \* controller.close() has been called
    closeCount,      \* number of controller.close() calls
    ended,           \* the flag of safeEnd
    doneCount,       \* completion counter
    pc,              \* per task: suspension point of streamOneModel
    sawFirstToken,   \* per task flag
    gotAnyToken,     \* per task flag
    modelCompleted,  \* per task flag
    pingArmed,       \* per task: the keepalive interval is set
    stalled,         \* per task: the upstream body delivers nothing more
    frames,          \* SSE frames the upstreams have delivered so far
    wdArmed,         \* the 120 s timer of start() is set
    wdElapsed,       \* 120 s have passed since the request started
    fallbackCalls,   \* per task: non-streaming calls issued
    hist,            \* per task: what the upstream did (history)
    body,            \* the request body as received
    temperature,     \* the resolved temperature, in tenths
    status,          \* HTTP status of the response, 0 while undecided
    calls,           \* upstream calls issued so far (history)
    sse,             \* the SSE frame parser of one upstream body
    cli,             \* the client page during one submission
    flush            \* payloads handed to flushEventData by one read loop

vars == <<models, main, log, closed, closeCount, ended, doneCount, pc,
          sawFirstToken, gotAnyToken, modelCompleted, pingArmed,
          stalled, frames, wdArmed, wdElapsed,
          fallbackCalls, hist, body, temperature, status, calls, sse, cli,
          flush>>

\* What the workers and the orchestrator never assign.
request == <<body, temperature, sse, cli, flush>>

Tasks == 1..Len(models)

\* ---------------------------------------------------------------- events
Ev(type, t, text) ==
    [type |-> type, task |-> t,
     modelId |-> IF t = 0 THEN "" ELSE models[t], text |-> text]

TerminalTypes == {"model-done", "error"}

\* { type: "start", models: body.models, temperature, ts }
StartEvent ==
    [type |-> "start", task |-> 0, modelId |-> "", text |-> "",
     models |-> models, temperature |-> temperature]

\* The body of one upstream request: model, temperature, stream flag.
Call(t, stream) ==
    [task |-> t, modelId |-> models[t], stream |-> stream,
     temperature |-> temperature]

\* ---------------------------------------------------------- upstream data
\* One SSE payload handed to flushEventData.
Payload(kind, content, reasoning, text, message, usage) ==
    [kind |-> kind, content |-> content, reasoning |-> reasoning,
     text |-> text, message |-> message, usage |-> usage]

EmptyPayload     == Payload("empty", Null, Null, Null, Null, FALSE)
DonePayload      == Payload("done", Null, Null, Null, Null, FALSE)
MalformedPayload == Payload("malformed", Null, Null, Null, Null, FALSE)
DeltaPayload     == Payload("json", "x", Null, Null, Null, FALSE)
ReasoningPayload == Payload("json", "", "r", Null, Null, FALSE)
UsagePayload     == Payload("json", Null, Null, Null, Null, TRUE)

StreamPayloads == {DonePayload, MalformedPayload, DeltaPayload,
                   ReasoningPayload, UsagePayload}
TrailingPayloads == StreamPayloads \cup {EmptyPayload}

\* a ?? b
NullishOr(a, b) == IF a = Null THEN b ELSE a

DeltaOf(chunk) ==
    NullishOr(chunk.content,
      NullishOr(chunk.reasoning,
        NullishOr(chunk.text,
          NullishOr(chunk.message, ""))))

\* Body of the non-streaming response, as parsed by nonStreamRes.json().
FallbackJson(parsed, content, text, usage) ==
    [parsed |-> parsed, content |-> content, text |-> text, usage |-> usage]

FallbackBodies ==
    { FallbackJson(FALSE, Null, Null, FALSE),
      FallbackJson(TRUE, "full", Null, TRUE),
      FallbackJson(TRUE, "", "full", FALSE) }

FallbackText(json) == NullishOr(json.content, NullishOr(json.text, ""))

\* ------------------------------------------------- the closure's variables
Cur ==
    [log |-> log, closed |-> closed, closeCount |-> closeCount,
     ended |-> ended, doneCount |-> doneCount,
     sawFirstToken |-> sawFirstToken, gotAnyToken |-> gotAnyToken,
     modelCompleted |-> modelCompleted, pingArmed |-> pingArmed]

Commit(s) ==
    /\ log' = s.log
    /\ closed' = s.closed
    /\ closeCount' = s.closeCount
    /\ ended' = s.ended
    /\ doneCount' = s.doneCount
    /\ sawFirstToken' = s.sawFirstToken
    /\ gotAnyToken' = s.gotAnyToken
    /\ modelCompleted' = s.modelCompleted
    /\ pingArmed' = s.pingArmed

\* controller.enqueue throws once the stream is closed; write swallows it.
Write(s, ev) ==
    IF s.closed THEN s ELSE [s EXCEPT !.log = Append(@, ev)]

\* safeEnd without its ended guard.
SafeEnd_Unguarded(s) ==
    [Write(s, Ev("end", 0, "")) EXCEPT
        !.closed = TRUE, !.closeCount = @ + 1, !.ended = TRUE]

SafeEnd(s) ==
    IF ~s.ended
    THEN [Write(s, Ev("end", 0, "")) EXCEPT
             !.closed = TRUE, !.closeCount = @ + 1, !.ended = TRUE]
    ELSE s

\* markModelDone without its modelCompleted guard.
MarkModelDone_NoGuard(s, t, error) ==
    LET s1 == [s EXCEPT !.modelCompleted[t] = TRUE]
        s2 == IF error # ""
              THEN Write(s1, Ev("error", t, error))
              ELSE Write(s1, Ev("model-done", t, ""))
        s3 == [s2 EXCEPT !.doneCount = @ + 1]
    IN  IF s3.doneCount >= Len(models) THEN SafeEnd(s3) ELSE s3

\* markModelDone ending the response at the first terminal event.
MarkModelDone_EndsEarly(s, t, error) ==
    IF s.modelCompleted[t] THEN s
    ELSE LET s1 == [s EXCEPT !.modelCompleted[t] = TRUE]
             s2 == IF error # ""
                   THEN Write(s1, Ev("error", t, error))
                   ELSE Write(s1, Ev("model-done", t, ""))
             s3 == [s2 EXCEPT !.doneCount = @ + 1]
         IN  SafeEnd(s3)

\* markModelDone leaving end to the code after Promise.allSettled.
MarkModelDone_LeavesEnd(s, t, error) ==
    IF s.modelCompleted[t] THEN s
    ELSE LET s1 == [s EXCEPT !.modelCompleted[t] = TRUE]
             s2 == IF error # ""
                   THEN Write(s1, Ev("error", t, error))
                   ELSE Write(s1, Ev("model-done", t, ""))
         IN  [s2 EXCEPT !.doneCount = @ + 1]

\* markModelDone counting its calls: the counter moves before the guard.
MarkModelDone_CountsCalls(s, t, error) ==
    IF s.modelCompleted[t] THEN [s EXCEPT !.doneCount = @ + 1]
    ELSE LET s1 == [s EXCEPT !.modelCompleted[t] = TRUE]
             s2 == IF error # ""
                   THEN Write(s1, Ev("error", t, error))
                   ELSE Write(s1, Ev("model-done", t, ""))
             s3 == [s2 EXCEPT !.doneCount = @ + 1]
         IN  IF s3.doneCount >= Len(models) THEN SafeEnd(s3) ELSE s3

\* error = "" stands for an absent (falsy) error argument.
MarkModelDone(s, t, error) ==
    IF s.modelCompleted[t] THEN s
    ELSE LET s1 == [s EXCEPT !.modelCompleted[t] = TRUE]
             s2 == IF error # ""
                   THEN Write(s1, Ev("error", t, error))
                   ELSE Write(s1, Ev("model-done", t, ""))
             s3 == [s2 EXCEPT !.doneCount = @ + 1]
         IN  IF s3.doneCount >= Len(models) THEN SafeEnd(s3) ELSE s3

\* ttfb written after the first delta instead of before it.
EmitDelta_TtfbAfter(s, t, text) ==
    LET s1 == Write([s EXCEPT !.gotAnyToken[t] = TRUE], Ev("delta", t, text))
    IN  IF ~s.sawFirstToken[t]
        THEN Write([s1 EXCEPT !.sawFirstToken[t] = TRUE], Ev("ttfb", t, ""))
        ELSE s1

EmitDelta(s, t, text) ==
    LET s1 == IF ~s.sawFirstToken[t]
              THEN Write([s EXCEPT !.sawFirstToken[t] = TRUE], Ev("ttfb", t, ""))
              ELSE s
    IN  Write([s1 EXCEPT !.gotAnyToken[t] = TRUE], Ev("delta", t, text))

\* flushEventData failing the task on a payload that is not JSON.
FlushEventData_MalformedFails(s, t, p) ==
    IF p.kind = "empty" THEN s
    ELSE IF p.kind = "done"
    THEN MarkModelDone([s EXCEPT !.pingArmed[t] = FALSE], t, "")
    ELSE IF p.kind = "malformed" THEN MarkModelDone(s, t, "Unexpected token")
    ELSE LET delta == DeltaOf(p)
             s1 == IF delta # "" THEN EmitDelta(s, t, delta) ELSE s
         IN  IF p.usage THEN Write(s1, Ev("usage", t, "")) ELSE s1

\* flushEventData leaving the interval set on [DONE].
FlushEventData_KeepsInterval(s, t, p) ==
    IF p.kind = "empty" THEN s
    ELSE IF p.kind = "done" THEN MarkModelDone(s, t, "")
    ELSE IF p.kind = "malformed" THEN s
    ELSE LET delta == DeltaOf(p)
             s1 == IF delta # "" THEN EmitDelta(s, t, delta) ELSE s
         IN  IF p.usage THEN Write(s1, Ev("usage", t, "")) ELSE s1

FlushEventData(s, t, p) ==
    IF p.kind = "empty" THEN s
    ELSE IF p.kind = "done"
    THEN MarkModelDone([s EXCEPT !.pingArmed[t] = FALSE], t, "")
    ELSE IF p.kind = "malformed" THEN s
    ELSE LET delta == DeltaOf(p)
             s1 == IF delta # "" THEN EmitDelta(s, t, delta) ELSE s
         IN  IF p.usage THEN Write(s1, Ev("usage", t, "")) ELSE s1

\* the fallback decided on the completion flag instead of gotAnyToken.
NeedsFallback_NotCompleted(s, t) == ~s.modelCompleted[t]

NeedsFallback(s, t) == ~s.gotAnyToken[t]

\* ------------------------------------------------------------ request body
\* Text is a sequence of one-character strings.  The characters of the
\* model identifiers used in request bodies:
Chars(id) ==
    CASE id = "a" -> <<"a">>
      [] id = "b" -> <<"b">>
      [] id = "" -> <<>>
      [] id = "Embed-1" -> <<"E", "m", "b", "e", "d", "-", "1">>
      [] id = "xEMBED" -> <<"x", "E", "M", "B", "E", "D">>
      [] id = "embe-d" -> <<"e", "m", "b", "e", "-", "d">>

LowerChar(c) ==
    CASE c = "E" -> "e"
      [] c = "M" -> "m"
      [] c = "B" -> "b"
      [] c = "D" -> "d"
      [] OTHER -> c

\* str.toLowerCase()
ToLowerCase(str) == [i \in DOMAIN str |-> LowerChar(str[i])]

\* str.includes(sub)
Includes(str, sub) ==
    \E i \in 1..(Len(str) - Len(sub) + 1) : SubSeq(str, i, i + Len(sub) - 1) = sub

Digits == {"0", "1", "2", "3", "4", "5", "6", "7", "8", "9"}

DigitVal(c) ==
    CASE c = "0" -> 0 [] c = "1" -> 1 [] c = "2" -> 2 [] c = "3" -> 3
      [] c = "4" -> 4 [] c = "5" -> 5 [] c = "6" -> 6 [] c = "7" -> 7
      [] c = "8" -> 8 [] c = "9" -> 9

WhiteSpace == {" ", "\t", "\r", "\n"}

\* str.trimStart(), str.trimEnd(), str.trim()
RECURSIVE TrimStart(_)
TrimStart(str) ==
    IF str # <<>> /\ Head(str) \in WhiteSpace THEN TrimStart(Tail(str)) ELSE str

RECURSIVE TrimEnd(_)
TrimEnd(str) ==
    IF str # <<>> /\ str[Len(str)] \in WhiteSpace
    THEN TrimEnd(SubSeq(str, 1, Len(str) - 1))
    ELSE str

Trim(str) == TrimEnd(TrimStart(str))

\* Number of leading decimal digits of str.
RECURSIVE DigitRun(_)
DigitRun(str) ==
    IF str # <<>> /\ Head(str) \in Digits THEN 1 + DigitRun(Tail(str)) ELSE 0

\* Value of a sequence of decimal digits.
RECURSIVE Decimal(_)
Decimal(str) ==
    IF str = <<>> THEN 0
    ELSE Decimal(SubSeq(str, 1, Len(str) - 1)) * 10 + DigitVal(str[Len(str)])

NaN == [nan |-> TRUE, val |-> 0]

\* Number.parseFloat(str): leading white space is skipped, then the longest
\* prefix of the form [+-] digits [. digits] is converted and the rest of
\* the string is ignored; NaN if there is no such prefix.  The value is in
\* tenths, so the texts used here carry at most one fractional digit; they
\* hold no exponent and no "Infinity".
ParseFloat(str) ==
    LET s0 == TrimStart(str)
        signed == s0 # <<>> /\ Head(s0) \in {"-", "+"}
        neg == s0 # <<>> /\ Head(s0) = "-"
        s1 == IF signed THEN Tail(s0) ELSE s0
        n == DigitRun(s1)
        s2 == SubSeq(s1, n + 1, Len(s1))
        s3 == IF s2 # <<>> /\ Head(s2) = "." THEN Tail(s2) ELSE <<>>
        m == DigitRun(s3)
        mag == Decimal(SubSeq(s1, 1, n)) * 10 + (IF m >= 1 THEN DigitVal(s3[1]) ELSE 0)
    IN  IF n = 0 /\ m = 0 THEN NaN
        ELSE [nan |-> FALSE, val |-> IF neg THEN 0 - mag ELSE mag]

\* The temperature field of the parsed body.
Absent == [kind |-> "absent", num |-> 0, str |-> <<>>]
Num(n) == [kind |-> "number", num |-> n, str |-> <<>>]
Str(str) == [kind |-> "string", num |-> 0, str |-> str]
OtherType == [kind |-> "boolean", num |-> 0, str |-> <<>>]

Body(json, prompt, ids, temp) ==
    [json |-> json, prompt |-> prompt, models |-> ids, temperature |-> temp]

\* BodySchema.parse succeeds.
SchemaOk(b) ==
    /\ Len(b.prompt) >= 1
    /\ Len(b.models) >= 1
    /\ \A i \in DOMAIN b.models : Len(Chars(b.models[i])) >= 1
    /\ b.temperature.kind \in {"absent", "number", "string"}

Embed == <<"e", "m", "b", "e", "d">>

\* the embedding guard comparing without toLowerCase.
BadModels_CaseSensitive(b) ==
    SelectSeq(b.models, LAMBDA m : Includes(Chars(m), Embed))

\* body.models.filter((m) => m.toLowerCase().includes("embed"))
BadModels(b) ==
    SelectSeq(b.models, LAMBDA m : Includes(ToLowerCase(Chars(m)), Embed))

\* Lines 150-159: default, number, parsed string, then the two clamps.
ResolveTemperature(raw) ==
    LET parsed == ParseFloat(raw.str)
        t0 == IF raw.kind = "number" THEN raw.num
              ELSE IF raw.kind = "string" /\ ~parsed.nan THEN parsed.val
              ELSE DefaultTemperature
        t1 == IF t0 < MinTemperature THEN MinTemperature ELSE t0
    IN  IF t1 > MaxTemperature THEN MaxTemperature ELSE t1

Hi == <<"h", "i">>

TemperatureInputs ==
    { Absent, Num(0 - 5), Num(0), Num(15), Num(20), Num(30),
      Str(<<"-", "1">>), Str(<<"1", ".", "5">>), Str(<<"3">>), Str(<<" ", "2">>),
      Str(<<"a", "b", "c">>), Str(<<>>), Str(<<"1", ".", "5", "a", "b", "c">>) }

\* Bodies that pass validation.
ValidBodies ==
    {Body(TRUE, Hi, <<"a">>, temp) : temp \in TemperatureInputs}
        \cup {Body(TRUE, Hi, <<"a", "b">>, Num(30)),
              Body(TRUE, Hi, <<"embe-d">>, Absent)}

\* Bodies that fail it: unparsable, empty prompt, empty model list, empty
\* identifier, embedding models, temperature of another type.
InvalidBodies ==
    { Body(FALSE, <<>>, <<>>, Absent),
      Body(TRUE, <<>>, <<"a">>, Absent),
      Body(TRUE, Hi, <<>>, Num(15)),
      Body(TRUE, Hi, <<"">>, Absent),
      Body(TRUE, Hi, <<"Embed-1">>, Absent),
      Body(TRUE, Hi, <<"a", "xEMBED">>, Num(30)),
      Body(TRUE, <<>>, <<"Embed-1">>, Absent),
      Body(TRUE, Hi, <<"a">>, OtherType) }

Bodies == ValidBodies \cup InvalidBodies

\* ------------------------------------------------------------------- Init
\* One model, two models, and a list that repeats an identifier.
Requests == {<<"a">>, <<"a", "b">>, <<"a", "a">>}

AllTasks == UNION {DOMAIN r : r \in Requests}

NoHist == [connect |-> "pending", deltas |-> 0, doneFrame |-> FALSE,
           end |-> "none", fb |-> "none"]

Init ==
    /\ models \in Requests
    /\ main = "accepted"
    /\ log = <<>>
    /\ closed = FALSE
    /\ closeCount = 0
    /\ ended = FALSE
    /\ doneCount = 0
    /\ pc = [t \in Tasks |-> "idle"]
    /\ sawFirstToken = [t \in Tasks |-> FALSE]
    /\ gotAnyToken = [t \in Tasks |-> FALSE]
    /\ modelCompleted = [t \in Tasks |-> FALSE]
    /\ pingArmed = [t \in Tasks |-> FALSE]
    /\ stalled = [t \in Tasks |-> FALSE]
    /\ frames = 0
    /\ wdArmed = FALSE
    /\ wdElapsed = FALSE
    /\ fallbackCalls = [t \in Tasks |-> 0]
    /\ hist = [t \in Tasks |-> NoHist]
    /\ body = Body(TRUE, Hi, models, Absent)
    /\ temperature = DefaultTemperature
    /\ status = 0
    /\ calls = {}
    /\ sse = Unused
    /\ cli = Unused
    /\ flush = Unused

\* ---------------------------------------------------------------- actions
\* body.models.map(streamOneModel): each call runs up to its first await.
RECURSIVE FanOut(_, _)
\* the fan-out starting the first worker only.
FanOut_FirstOnly(s, t) ==
    IF t > Len(models) THEN s
    ELSE Write(s, Ev("model-start", t, ""))

\* the fan-out starting the workers from the last model to the first.
RECURSIVE FanOut_Reverse(_, _)
FanOut_Reverse(s, t) ==
    IF t > Len(models) THEN s
    ELSE Write(FanOut_Reverse(s, t + 1), Ev("model-start", t, ""))

FanOut(s, t) ==
    IF t > Len(models) THEN s
    ELSE FanOut(Write(s, Ev("model-start", t, "")), t + 1)

\* start written after the workers were started.
OpenStream_StartLast(s) == Write(FanOut(s, 1), StartEvent)

\* write({type: "start", ...}), then body.models.map(streamOneModel).
OpenStream(s) == FanOut(Write(s, StartEvent), 1)

\* The stream is constructed, start() runs up to its await, and the
\* Response wrapping the stream is returned with status 200.
StartStream ==
    /\ main = "accepted"
    /\ Commit(OpenStream(Cur))
    /\ pc' = [t \in Tasks |-> "connect"]
    /\ main' = "awaitAll"
    /\ status' = 200
    /\ calls' = {Call(t, TRUE) : t \in Tasks}
    /\ UNCHANGED <<request, models, stalled, frames, wdArmed, wdElapsed, fallbackCalls, hist>>

\* The worker returns through one of its markModelDone calls.
Return(t, s) ==
    /\ Commit(s)
    /\ pc' = [pc EXCEPT ![t] = "returned"]

\* fetch resolved with res.ok and a body: the read loop is set up.
FetchOk(t) ==
    /\ pc[t] = "connect"
    /\ pc' = [pc EXCEPT ![t] = "read"]
    /\ pingArmed' = [pingArmed EXCEPT ![t] = TRUE]
    /\ hist' = [hist EXCEPT ![t].connect = "ok"]
    /\ UNCHANGED <<request, status, calls, models, main, log, closed, closeCount, ended, doneCount,
                   sawFirstToken, gotAnyToken, modelCompleted, stalled, frames,
                   wdArmed, wdElapsed, fallbackCalls>>

\* fetch resolved with !res.ok or without a body: await res.text().
FetchBad(t) ==
    /\ pc[t] = "connect"
    /\ pc' = [pc EXCEPT ![t] = "errBody"]
    /\ hist' = [hist EXCEPT ![t].connect = "bad"]
    /\ UNCHANGED <<request, status, calls, models, main, log, closed, closeCount, ended, doneCount,
                   sawFirstToken, gotAnyToken, modelCompleted, pingArmed,
                   stalled, frames, wdArmed, wdElapsed,
                   fallbackCalls>>

\* res.text() settled: throw new Error("HTTP ..."), caught at the boundary.
FetchBadThrown(t) ==
    /\ pc[t] = "errBody"
    /\ Return(t, MarkModelDone(Cur, t, "HTTP error"))
    /\ UNCHANGED <<request, status, calls, models, main, stalled, frames, wdArmed, wdElapsed,
                   fallbackCalls, hist>>

\* fetch rejected: a transport error, or the abort that the 180 s timer of
\* fetchWithTimeout issues while the fetch is pending.
FetchRejects(t) ==
    /\ pc[t] = "connect"
    /\ Return(t, MarkModelDone(Cur, t, "fetch failed"))
    /\ hist' = [hist EXCEPT ![t].connect = "rejected"]
    /\ UNCHANGED <<request, status, calls, models, main, stalled, frames, wdArmed, wdElapsed, fallbackCalls>>

Present(p) == IF p.kind = "empty" THEN 0 ELSE 1

DeltaFrames(p) == IF p.kind = "json" /\ DeltaOf(p) # "" THEN 1 ELSE 0

\* reader.read() delivered a chunk that completes one frame.
ReadChunk(t, p) ==
    /\ pc[t] = "read"
    /\ ~stalled[t]
    /\ frames < MaxFrames
    /\ Commit(FlushEventData(Cur, t, p))
    /\ frames' = frames + 1
    /\ hist' = [hist EXCEPT ![t].deltas = @ + DeltaFrames(p),
                            ![t].doneFrame = @ \/ p.kind = "done"]
    /\ UNCHANGED <<request, status, calls, models, main, pc, stalled, wdArmed, wdElapsed, fallbackCalls>>

\* reader.read() reported done: the two trailing flushes, the finally
\* block, then either the fallback call or markModelDone().
ReadDone(t, parts, buf) ==
    /\ pc[t] = "read"
    /\ ~stalled[t]
    /\ frames + Present(parts) + Present(buf) <= MaxFrames
    /\ frames' = frames + Present(parts) + Present(buf)
    /\ LET s1 == FlushEventData(FlushEventData(Cur, t, parts), t, buf)
           s2 == [s1 EXCEPT !.pingArmed[t] = FALSE]
           h  == [hist EXCEPT ![t].deltas = @ + DeltaFrames(parts) + DeltaFrames(buf),
                              ![t].doneFrame = @ \/ parts.kind = "done" \/ buf.kind = "done",
                              ![t].end = "eof"]
       IN  /\ hist' = h
           /\ IF NeedsFallback(s2, t)
              THEN /\ Commit(s2)
                   /\ pc' = [pc EXCEPT ![t] = "fallback"]
                   /\ fallbackCalls' = [fallbackCalls EXCEPT ![t] = @ + 1]
                   /\ calls' = calls \cup {Call(t, FALSE)}
              ELSE /\ Return(t, MarkModelDone(s2, t, ""))
                   /\ UNCHANGED <<fallbackCalls, calls>>
    /\ UNCHANGED <<request, status, models, main, stalled, wdArmed, wdElapsed>>

\* reader.read() rejected: finally clears the interval, the outer catch
\* reports the error.
ReadError(t) ==
    /\ pc[t] = "read"
    /\ ~stalled[t]
    /\ Return(t, MarkModelDone([Cur EXCEPT !.pingArmed[t] = FALSE], t, "terminated"))
    /\ hist' = [hist EXCEPT ![t].end = "error"]
    /\ UNCHANGED <<request, status, calls, models, main, stalled, frames, wdArmed, wdElapsed, fallbackCalls>>

\* The upstream body neither delivers, finishes nor fails any more; the
\* timer of fetchWithTimeout was cleared when the headers arrived.
BodyStalls(t) ==
    /\ pc[t] = "read"
    /\ ~stalled[t]
    /\ stalled' = [stalled EXCEPT ![t] = TRUE]
    /\ UNCHANGED <<request, status, calls, models, main, log, closed, closeCount, ended, doneCount, pc,
                   sawFirstToken, gotAnyToken, modelCompleted, pingArmed,
                   frames, wdArmed, wdElapsed, fallbackCalls, hist>>

\* The non-streaming fetch rejected (transport error or the 180 s abort):
\* caught by the inner catch.
FallbackRejects(t) ==
    /\ pc[t] = "fallback"
    /\ Return(t, MarkModelDone(Cur, t, "fetch failed"))
    /\ hist' = [hist EXCEPT ![t].fb = "rejected"]
    /\ UNCHANGED <<request, status, calls, models, main, stalled, frames, wdArmed, wdElapsed, fallbackCalls>>

\* The non-streaming fetch resolved; the body is awaited next
\* (nonStreamRes.text() if !ok, nonStreamRes.json() otherwise).
FallbackResponds(t, ok) ==
    /\ pc[t] = "fallback"
    /\ pc' = [pc EXCEPT ![t] = IF ok THEN "fallbackJson" ELSE "fallbackErrText"]
    /\ UNCHANGED <<request, status, calls, models, main, log, closed, closeCount, ended, doneCount,
                   sawFirstToken, gotAnyToken, modelCompleted, pingArmed,
                   stalled, frames, wdArmed, wdElapsed,
                   fallbackCalls, hist>>

FallbackBadThrown(t) ==
    /\ pc[t] = "fallbackErrText"
    /\ Return(t, MarkModelDone(Cur, t, "HTTP error"))
    /\ hist' = [hist EXCEPT ![t].fb = "httpError"]
    /\ UNCHANGED <<request, status, calls, models, main, stalled, frames, wdArmed, wdElapsed, fallbackCalls>>

\* Events of a parsed non-streaming response, then markModelDone().
FallbackEmit(s, t, json) ==
    LET text == FallbackText(json)
        s1 == IF text # "" THEN EmitDelta(s, t, text) ELSE s
        s2 == IF json.usage THEN Write(s1, Ev("usage", t, "")) ELSE s1
    IN  MarkModelDone(s2, t, "")

FallbackBody(t, json) ==
    /\ pc[t] = "fallbackJson"
    /\ IF ~json.parsed
       THEN /\ Return(t, MarkModelDone(Cur, t, "Failed to parse non-streaming response"))
            /\ hist' = [hist EXCEPT ![t].fb = "unparsable"]
       ELSE /\ Return(t, FallbackEmit(Cur, t, json))
            /\ hist' = [hist EXCEPT ![t].fb =
                           IF FallbackText(json) # "" THEN "text" ELSE "notext"]
    /\ UNCHANGED <<request, status, calls, models, main, stalled, frames, wdArmed, wdElapsed, fallbackCalls>>

\* ------------------------------------------------------------- keepalive
NumPings == Cardinality({i \in DOMAIN log : log[i].type = "ping"})

\* The 15 s interval callback of a worker finds its lastWrite more than
\* 14 s old and writes a ping.  Time is not measured here: while the
\* interval is set, 15 s without a delta or usage of this worker may pass
\* at any point, so the write is enabled whenever the interval is set.
PingTick(t) ==
    /\ pingArmed[t]
    /\ NumPings < MaxPings
    /\ Commit(Write(Cur, Ev("ping", 0, "")))
    /\ UNCHANGED <<request, status, calls, models, main, pc, stalled, frames, wdArmed, wdElapsed,
                   fallbackCalls, hist>>

\* ---------------------------------------------------- orchestrator tail
\* Promise.allSettled resolved: the 120 s timer is set, then safeEnd().
AllSettled ==
    /\ main = "awaitAll"
    /\ \A t \in Tasks : pc[t] = "returned"
    /\ Commit(SafeEnd(Cur))
    /\ wdArmed' = TRUE
    /\ main' = "done"
    /\ UNCHANGED <<request, status, calls, models, pc, stalled, frames, wdElapsed, fallbackCalls, hist>>

\* 120 s have passed since startedAll.  No callback is registered for this
\* instant: the only 120 s timer is set by AllSettled.
WatchdogDurationElapses ==
    /\ main \in {"awaitAll", "done"}
    /\ ~wdElapsed
    /\ wdElapsed' = TRUE
    /\ UNCHANGED <<request, status, calls, models, main, log, closed, closeCount, ended, doneCount, pc,
                   sawFirstToken, gotAnyToken, modelCompleted, pingArmed,
                   stalled, frames, wdArmed, fallbackCalls, hist>>

\* The timer set by AllSettled fires, 120 s after it was set.
WatchdogFires ==
    /\ wdArmed
    /\ wdElapsed
    /\ Commit(SafeEnd(Cur))
    /\ wdArmed' = FALSE
    /\ UNCHANGED <<request, status, calls, models, main, pc, stalled, frames, wdElapsed, fallbackCalls, hist>>

\* ------------------------------------------------------------ the system
WorkerStep(t) ==
    \/ FetchOk(t)
    \/ FetchBad(t)
    \/ FetchBadThrown(t)
    \/ FetchRejects(t)
    \/ \E p \in StreamPayloads : ReadChunk(t, p)
    \/ \E parts \in TrailingPayloads, buf \in TrailingPayloads : ReadDone(t, parts, buf)
    \/ ReadError(t)
    \/ FallbackRejects(t)
    \/ \E ok \in BOOLEAN : FallbackResponds(t, ok)
    \/ FallbackBadThrown(t)
    \/ \E json \in FallbackBodies : FallbackBody(t, json)
    \/ PingTick(t)

Next ==
    \/ StartStream
    \/ \E t \in Tasks : WorkerStep(t)
    \/ \E t \in Tasks : BodyStalls(t)
    \/ AllSettled
    \/ WatchdogDurationElapses
    \/ WatchdogFires

Spec == Init /\ [][Next]_vars

\* Timers fire, callbacks run, and an upstream that has not stalled
\* eventually answers.
Fairness ==
    /\ WF_vars(StartStream)
    /\ \A t \in AllTasks : WF_vars(t \in Tasks /\ WorkerStep(t))
    /\ WF_vars(AllSettled)
    /\ WF_vars(WatchdogDurationElapses)
    /\ WF_vars(WatchdogFires)

FairSpec == Spec /\ Fairness

\* ------------------------------------------------------- request handling
\* The request has arrived and req.json() is pending; no stream exists.
NoStream ==
    /\ models = <<>>
    /\ log = <<>>
    /\ closed = FALSE
    /\ closeCount = 0
    /\ ended = FALSE
    /\ doneCount = 0
    /\ pc = <<>>
    /\ sawFirstToken = <<>>
    /\ gotAnyToken = <<>>
    /\ modelCompleted = <<>>
    /\ pingArmed = <<>>
    /\ stalled = <<>>
    /\ frames = 0
    /\ wdArmed = FALSE
    /\ wdElapsed = FALSE
    /\ fallbackCalls = <<>>
    /\ hist = <<>>
    /\ temperature = DefaultTemperature
    /\ status = 0
    /\ calls = {}

ReqInit ==
    /\ body \in Bodies
    /\ main = "received"
    /\ NoStream
    /\ sse = Unused
    /\ cli = Unused
    /\ flush = Unused

\* POST from the settling of req.json() to the construction of the stream
\* (lines 124-168): the three 400 answers, or the resolved temperature and
\* the closure variables of the stream about to be opened by StartStream.
\* The API key is configured (without it every request is answered 500).
Post ==
    /\ main = "received"
    /\ LET accept == body.json /\ SchemaOk(body) /\ Len(BadModels(body)) = 0
           ts == IF accept THEN 1..Len(body.models) ELSE {}
       IN  /\ main' = IF accept THEN "accepted" ELSE "rejected"
           /\ status' = IF accept THEN status ELSE 400
           /\ models' = IF accept THEN body.models ELSE models
           /\ temperature' = IF accept THEN ResolveTemperature(body.temperature)
                              ELSE temperature
           /\ pc' = [t \in ts |-> "idle"]
           /\ sawFirstToken' = [t \in ts |-> FALSE]
           /\ gotAnyToken' = [t \in ts |-> FALSE]
           /\ modelCompleted' = [t \in ts |-> FALSE]
           /\ pingArmed' = [t \in ts |-> FALSE]
           /\ stalled' = [t \in ts |-> FALSE]
           /\ fallbackCalls' = [t \in ts |-> 0]
           /\ hist' = [t \in ts |-> NoHist]
    /\ UNCHANGED <<body, sse, cli, flush, log, closed, closeCount, ended, doneCount,
                   frames, wdArmed, wdElapsed, calls>>

ReqNext ==
    \/ Post
    \/ Next

ReqSpec == ReqInit /\ [][ReqNext]_vars

\* The variables of the endpoint.
server == <<models, main, log, closed, closeCount, ended, doneCount, pc,
            sawFirstToken, gotAnyToken, modelCompleted, pingArmed,
            stalled, frames, wdArmed, wdElapsed, fallbackCalls, hist,
            body, temperature, status, calls>>

\* No request is being handled.
NoRequest ==
    /\ body = Unused
    /\ main = "none"
    /\ NoStream

\* -------------------------------------------------------- SSE frame parser
\* The read loop of streamOneModel on the characters of one upstream body:
\* sse.rest is what the upstream has not delivered yet, sse.out the
\* payloads handed to flushEventData so far.
MaxSegments == 5    \* pieces an upstream body is made of

DataPrefix == <<"d", "a", "t", "a", ":">>

\* A complete data line with a payload text of its own.
DataY == DataPrefix \o <<"y", "\n">>

\* Pieces of upstream bodies: the field name, payload text, a space, the
\* two line-end characters and a complete data line.
Segments == {DataPrefix, <<"x">>, <<" ">>, <<"\r">>, <<"\n">>, DataY}

RECURSIVE Flatten(_)
Flatten(seqs) == IF seqs = <<>> THEN <<>> ELSE Head(seqs) \o Flatten(Tail(seqs))

SseInputs ==
    UNION {{Flatten(f) : f \in [1..n -> Segments]} : n \in 0..MaxSegments}

\* str.indexOf(c), counted from 1; 0 if absent.
IndexOf(str, c) ==
    IF \E i \in DOMAIN str : str[i] = c
    THEN CHOOSE i \in DOMAIN str : str[i] = c /\ \A j \in 1..(i - 1) : str[j] # c
    ELSE 0

\* str.split(/\r?\n/)
RECURSIVE SplitLines(_)
SplitLines(str) ==
    LET i == IndexOf(str, "\n")
        cut == IF i > 1 /\ str[i - 1] = "\r" THEN i - 2 ELSE i - 1
    IN  IF i = 0 THEN <<str>>
        ELSE <<SubSeq(str, 1, cut)>> \o SplitLines(SubSeq(str, i + 1, Len(str)))

StartsWith(str, prefix) ==
    Len(str) >= Len(prefix) /\ SubSeq(str, 1, Len(prefix)) = prefix

\* str.slice(n)
Slice(str, n) == SubSeq(str, n + 1, Len(str))

\* parts.join("\n")
RECURSIVE JoinLines(_)
JoinLines(parts) ==
    IF parts = <<>> THEN <<>>
    ELSE IF Len(parts) = 1 THEN parts[1]
    ELSE parts[1] \o <<"\n">> \o JoinLines(Tail(parts))

\* if (eventBufferParts.length) { flushEventData(join.trim()) }
FlushParts(p) ==
    IF Len(p.parts) > 0
    THEN [p EXCEPT !.out = Append(@, Trim(JoinLines(p.parts))), !.parts = <<>>]
    ELSE p

\* the loop body accumulating every non-blank line, data line or not.
ParseLine_AnyLine(p, rawLine) ==
    LET line == Trim(rawLine)
    IN  IF line = <<>> THEN FlushParts(p)
        ELSE IF StartsWith(line, DataPrefix)
        THEN [p EXCEPT !.parts = Append(@, Trim(Slice(line, 5)))]
        ELSE [p EXCEPT !.parts = Append(@, line)]

\* The body of the for loop over the complete lines of a chunk.
ParseLine(p, rawLine) ==
    LET line == Trim(rawLine)
    IN  IF line = <<>> THEN FlushParts(p)
        ELSE IF StartsWith(line, DataPrefix)
        THEN [p EXCEPT !.parts = Append(@, Trim(Slice(line, 5)))]
        ELSE p

RECURSIVE ParseLines(_, _)
ParseLines(p, lines) ==
    IF lines = <<>> THEN p ELSE ParseLines(ParseLine(p, Head(lines)), Tail(lines))

\* the read loop forgetting the unfinished line at the end of a chunk.
Feed_NoCarry(p, chunk) ==
    LET lines == SplitLines(p.buffer \o chunk)
    IN  ParseLines([p EXCEPT !.buffer = <<>>], SubSeq(lines, 1, Len(lines) - 1))

\* One turn of the read loop: buffer += chunk, split, keep the last piece.
Feed(p, chunk) ==
    LET lines == SplitLines(p.buffer \o chunk)
    IN  ParseLines([p EXCEPT !.buffer = lines[Len(lines)]],
                   SubSeq(lines, 1, Len(lines) - 1))

\* After the loop: the accumulated parts, then a trailing data line.
Finish(p) ==
    LET p1 == FlushParts(p)
        last == Trim(p1.buffer)
    IN  IF StartsWith(last, DataPrefix)
        THEN [p1 EXCEPT !.out = Append(@, Trim(Slice(last, 5)))]
        ELSE p1

Parser(input) ==
    [input |-> input, rest |-> input, buffer |-> <<>>, parts |-> <<>>,
     out |-> <<>>, done |-> FALSE, cutAtCr |-> FALSE]

\* The payloads of an input delivered as one chunk.
Unfragmented(input) == Finish(Feed(Parser(input), input)).out

SseInit ==
    /\ sse \in {Parser(input) : input \in SseInputs}
    /\ cli = Unused
    /\ flush = Unused
    /\ NoRequest

\* reader.read() delivers the next n characters; cutAtCr records that a
\* chunk ended between \r and \n.
SseRead(n) ==
    /\ ~sse.done
    /\ n \in 1..Len(sse.rest)
    /\ sse' = [Feed(sse, SubSeq(sse.rest, 1, n)) EXCEPT
                  !.rest = Slice(sse.rest, n),
                  !.cutAtCr = @ \/ (/\ n < Len(sse.rest)
                                    /\ sse.rest[n] = "\r"
                                    /\ sse.rest[n + 1] = "\n")]
    /\ UNCHANGED <<server, cli, flush>>

\* reader.read() reports done.
SseDone ==
    /\ ~sse.done
    /\ sse.rest = <<>>
    /\ sse' = [Finish(sse) EXCEPT !.done = TRUE]
    /\ UNCHANGED <<server, cli, flush>>

SseNext ==
    \/ \E n \in 1..(2 * MaxSegments + 5) : SseRead(n)
    \/ SseDone

SseSpec == SseInit /\ [][SseNext]_vars

\* ------------------------------------------------------------ client page
\* onSubmit of the page, from the fetch of /api/generate on.  The page
\* exists in two versions (part_001, part_002) that differ in the fold of
\* usage.  setByModel updaters are applied in the order they are queued,
\* so byModel is updated in place.
MaxLines == 3       \* lines of one NDJSON response

Pages == {"part_001", "part_002"}

\* One parsed line: text is the text of a delta, ms is ttfbMs, latencyMs
\* or totalMs, tokens stands for the three token counts.
ClientEvent(type, id, text, error, ms, tokens) ==
    [type |-> type, modelId |-> id, text |-> text, error |-> error,
     ms |-> ms, tokens |-> tokens]

ClientEvents ==
    { ClientEvent("model-start", "a", <<>>, Null, Null, Null),
      ClientEvent("delta", "a", <<"x">>, Null, Null, Null),
      ClientEvent("delta", "b", <<"y">>, Null, Null, Null),
      ClientEvent("usage", "a", <<>>, Null, Null, "9"),
      ClientEvent("usage", "a", <<>>, Null, Null, Null),
      ClientEvent("model-done", "a", <<>>, Null, "5", Null),
      ClientEvent("error", "b", <<>>, "boom", "6", Null),
      ClientEvent("end", "", <<>>, Null, "9", Null) }

RECURSIVE JoinChars(_)
JoinChars(str) == IF str = <<>> THEN "" ELSE Head(str) \o JoinChars(Tail(str))

\* JSON.stringify(evt), in two pieces so that a chunk can end inside it.
Text(e) ==
    << "{" \o e.type \o ":" \o e.modelId,
       JoinChars(e.text) \o "|" \o e.error \o "|" \o e.ms \o "|" \o e.tokens \o "}" >>

\* Events the if-chain of the client has no effect for: start, ping and
\* an event of a type the client does not know.
NeutralEvents ==
    { ClientEvent("start", "", <<>>, Null, Null, Null),
      ClientEvent("ping", "", <<>>, Null, Null, Null),
      ClientEvent("hello", "a", <<"x">>, "boom", "5", "9") }

\* The events of the responses of FoldSpec: every type, ttfb among them.
FoldEvents ==
    NeutralEvents \cup
    { ClientEvent("ttfb", "a", <<>>, Null, "3", Null),
      ClientEvent("model-start", "a", <<>>, Null, Null, Null),
      ClientEvent("delta", "a", <<"x">>, Null, Null, Null),
      ClientEvent("delta", "b", <<"y">>, Null, Null, Null),
      ClientEvent("usage", "a", <<>>, Null, Null, "9"),
      ClientEvent("model-done", "a", <<>>, Null, "5", Null),
      ClientEvent("error", "a", <<>>, "boom", "6", Null),
      ClientEvent("end", "", <<>>, Null, "9", Null) }

\* The texts of the events, each with the event it parses to.
Parsed == {<<Text(e), e>> : e \in ClientEvents \cup FoldEvents}

\* JSON.parse(line) succeeds / its result.
IsJson(line) == \E p \in Parsed : p[1] = line
JsonParse(line) == (CHOOSE p \in Parsed : p[1] = line)[2]

\* Lines of a response: the events, and a line that is not JSON.
ClientLines == {Text(e) \o <<"\n">> : e \in ClientEvents} \cup {<<"junk", "\n">>}

ClientStreams ==
    UNION {{Flatten(f) : f \in [1..n -> ClientLines]} : n \in 0..MaxLines}

\* StreamState; an absent field is Null, an absent isComplete is FALSE.
Fresh ==
    [content |-> <<>>, isComplete |-> FALSE, ttfbMs |-> Null,
     latencyMs |-> Null, error |-> Null, tokens |-> Null]

\* s[id] ?? { content: "" }
Get(s, id) == IF id \in DOMAIN s THEN s[id] ELSE Fresh

\* { ...s, [id]: entry }
Put(s, id, entry) ==
    [k \in DOMAIN s \cup {id} |-> IF k = id THEN entry ELSE s[k]]

Range(seq) == {seq[i] : i \in DOMAIN seq}

\* The updater of the watchdog and of the catch block.
RECURSIVE MarkIncomplete(_, _, _)
\* the updater overwriting complete models too.
MarkIncomplete_All(s, ids, message) ==
    [k \in DOMAIN s \cup Range(ids) |->
        IF k \in Range(ids)
        THEN [Get(s, k) EXCEPT !.error = message, !.isComplete = TRUE]
        ELSE s[k]]

MarkIncomplete(s, ids, message) ==
    IF ids = <<>> THEN s
    ELSE LET id == Head(ids)
             s1 == IF ~Get(s, id).isComplete
                   THEN Put(s, id, [Get(s, id) EXCEPT !.error = message,
                                                      !.isComplete = TRUE])
                   ELSE s
         IN  MarkIncomplete(s1, Tail(ids), message)

\* the fold with a delta that replaces the content.
Dispatch_DeltaReplaces(c, evt) ==
    LET prev == Get(c.byModel, evt.modelId)
        c1 == [c EXCEPT !.folded = Append(@, evt)]
    IN  IF evt.type = "delta"
        THEN [c1 EXCEPT !.byModel = Put(@, evt.modelId,
                            [prev EXCEPT !.content = evt.text])]
        ELSE c1

\* the fold keeping one running text for all models.
Dispatch_SharedText(c, evt) ==
    LET prev == Get(c.byModel, evt.modelId)
        c1 == [c EXCEPT !.folded = Append(@, evt)]
        set(entry) == [c1 EXCEPT !.byModel = Put(@, evt.modelId, entry)]
        texts == Flatten([i \in DOMAIN c.folded |-> c.folded[i].text])
    IN  CASE evt.type = "model-start" ->
               set([prev EXCEPT !.isComplete = FALSE])
          [] evt.type = "ttfb" ->
               set([prev EXCEPT !.ttfbMs = evt.ms])
          [] evt.type = "delta" ->
               set([prev EXCEPT !.content = texts \o evt.text])
          [] evt.type = "usage" ->
               set([prev EXCEPT !.tokens =
                       IF c.page = "part_001"
                       THEN NullishOr(evt.tokens, prev.tokens)
                       ELSE evt.tokens])
          [] evt.type = "model-done" ->
               [set([prev EXCEPT !.latencyMs = evt.ms, !.isComplete = TRUE])
                   EXCEPT !.doneCount = @ + 1]
          [] evt.type = "error" ->
               [set([prev EXCEPT !.error = evt.error, !.latencyMs = evt.ms,
                                 !.isComplete = TRUE])
                   EXCEPT !.doneCount = @ + 1]
          [] evt.type = "end" ->
               [c1 EXCEPT !.totalMs = evt.ms,
                          !.timer = IF @ = "armed" THEN "cleared" ELSE @]
          [] OTHER -> c1

\* the if-chain ending in an else branch that appends the text.
Dispatch_FoldsUnknown(c, evt) ==
    LET prev == Get(c.byModel, evt.modelId)
        c1 == [c EXCEPT !.folded = Append(@, evt)]
        set(entry) == [c1 EXCEPT !.byModel = Put(@, evt.modelId, entry)]
    IN  CASE evt.type = "model-start" ->
               set([prev EXCEPT !.isComplete = FALSE])
          [] evt.type = "ttfb" ->
               set([prev EXCEPT !.ttfbMs = evt.ms])
          [] evt.type = "delta" ->
               set([prev EXCEPT !.content = prev.content \o evt.text])
          [] evt.type = "usage" ->
               set([prev EXCEPT !.tokens =
                       IF c.page = "part_001"
                       THEN NullishOr(evt.tokens, prev.tokens)
                       ELSE evt.tokens])
          [] evt.type = "model-done" ->
               [set([prev EXCEPT !.latencyMs = evt.ms, !.isComplete = TRUE])
                   EXCEPT !.doneCount = @ + 1]
          [] evt.type = "error" ->
               [set([prev EXCEPT !.error = evt.error, !.latencyMs = evt.ms,
                                 !.isComplete = TRUE])
                   EXCEPT !.doneCount = @ + 1]
          [] evt.type = "end" ->
               [c1 EXCEPT !.totalMs = evt.ms,
                          !.timer = IF @ = "armed" THEN "cleared" ELSE @]
          [] OTHER -> set([prev EXCEPT !.content = prev.content \o evt.text])

\* the if-chain with a model-done that completes every model.
Dispatch_DoneCompletesAll(c, evt) ==
    LET prev == Get(c.byModel, evt.modelId)
        c1 == [c EXCEPT !.folded = Append(@, evt)]
        set(entry) == [c1 EXCEPT !.byModel = Put(@, evt.modelId, entry)]
    IN  CASE evt.type = "model-start" ->
               set([prev EXCEPT !.isComplete = FALSE])
          [] evt.type = "ttfb" ->
               set([prev EXCEPT !.ttfbMs = evt.ms])
          [] evt.type = "delta" ->
               set([prev EXCEPT !.content = prev.content \o evt.text])
          [] evt.type = "usage" ->
               set([prev EXCEPT !.tokens =
                       IF c.page = "part_001"
                       THEN NullishOr(evt.tokens, prev.tokens)
                       ELSE evt.tokens])
          [] evt.type = "model-done" ->
               [[c1 EXCEPT !.byModel =
                       [k \in DOMAIN c.byModel \cup {evt.modelId} |->
                           [Get(c.byModel, k) EXCEPT !.latencyMs = evt.ms,
                                                     !.isComplete = TRUE]]]
                   EXCEPT !.doneCount = @ + 1]
          [] evt.type = "error" ->
               [set([prev EXCEPT !.error = evt.error, !.latencyMs = evt.ms,
                                 !.isComplete = TRUE])
                   EXCEPT !.doneCount = @ + 1]
          [] evt.type = "end" ->
               [c1 EXCEPT !.totalMs = evt.ms,
                          !.timer = IF @ = "armed" THEN "cleared" ELSE @]
          [] OTHER -> c1

\* The if-chain on evt.type.
Dispatch(c, evt) ==
    LET prev == Get(c.byModel, evt.modelId)
        c1 == [c EXCEPT !.folded = Append(@, evt)]
        set(entry) == [c1 EXCEPT !.byModel = Put(@, evt.modelId, entry)]
    IN  CASE evt.type = "model-start" ->
               set([prev EXCEPT !.isComplete = FALSE])
          [] evt.type = "ttfb" ->
               set([prev EXCEPT !.ttfbMs = evt.ms])
          [] evt.type = "delta" ->
               set([prev EXCEPT !.content = prev.content \o evt.text])
          [] evt.type = "usage" ->
               set([prev EXCEPT !.tokens =
                       IF c.page = "part_001"
                       THEN NullishOr(evt.tokens, prev.tokens)
                       ELSE evt.tokens])
          [] evt.type = "model-done" ->
               [set([prev EXCEPT !.latencyMs = evt.ms, !.isComplete = TRUE])
                   EXCEPT !.doneCount = @ + 1]
          [] evt.type = "error" ->
               [set([prev EXCEPT !.error = evt.error, !.latencyMs = evt.ms,
                                 !.isComplete = TRUE])
                   EXCEPT !.doneCount = @ + 1]
          [] evt.type = "end" ->
               [c1 EXCEPT !.totalMs = evt.ms,
                          !.timer = IF @ = "armed" THEN "cleared" ELSE @]
          [] OTHER -> c1

\* while ((idx = buffer.indexOf("\n")) !== -1) { ... }: a blank or
\* unparsable line is skipped, end leaves the loop.
RECURSIVE Drain(_)
\* the line loop left at the first line that does not parse.
RECURSIVE Drain_JunkEndsLoop(_)
Drain_JunkEndsLoop(c) ==
    LET idx == IndexOf(c.buffer, "\n")
        line == Trim(SubSeq(c.buffer, 1, idx - 1))
        c1 == [c EXCEPT !.buffer = Slice(c.buffer, idx)]
    IN  IF idx = 0 THEN c
        ELSE IF line = <<>> THEN Drain_JunkEndsLoop(c1)
        ELSE IF ~IsJson(line) THEN c1
        ELSE IF JsonParse(line).type = "end" THEN Dispatch(c1, JsonParse(line))
        ELSE Drain_JunkEndsLoop(Dispatch(c1, JsonParse(line)))

Drain(c) ==
    LET idx == IndexOf(c.buffer, "\n")
        line == Trim(SubSeq(c.buffer, 1, idx - 1))
        c1 == [c EXCEPT !.buffer = Slice(c.buffer, idx)]
    IN  IF idx = 0 THEN c
        ELSE IF line = <<>> \/ ~IsJson(line) THEN Drain(c1)
        ELSE IF JsonParse(line).type = "end" THEN Dispatch(c1, JsonParse(line))
        ELSE Drain(Dispatch(c1, JsonParse(line)))

\* the catch block reporting the failure once per selected model.
Catch_ToastPerModel(c, message) ==
    [c EXCEPT !.toasts = @ + Len(c.selected),
              !.byModel = MarkIncomplete(@, c.selected, message)]

\* The catch block: toast, then every incomplete model gets the message.
Catch(c, message) ==
    [c EXCEPT !.toasts = @ + 1,
              !.byModel = MarkIncomplete(@, c.selected, message)]

\* The finally block.
Finally(c) ==
    [c EXCEPT !.submitting = FALSE,
              !.cancelled = @ \/ c.pc = "read",
              !.pc = "returned"]

Selected == <<"a", "b">>

\* onSubmit has run up to await fetch(...).
Submitted(page, stream) ==
    [page |-> page, selected |-> Selected, stream |-> stream, rest |-> stream,
     buffer |-> <<>>, byModel |-> [m \in Range(Selected) |-> Fresh],
     totalMs |-> Null, submitting |-> TRUE, pc |-> "fetch", timer |-> "unset",
     cancelled |-> FALSE, toasts |-> 0, doneCount |-> 0, folded |-> <<>>,
     how |-> "none"]

\* The state the read loop ends in when the stream comes as one chunk.
Whole(page, stream) ==
    Drain([Submitted(page, stream) EXCEPT
              !.pc = "read", !.timer = "armed", !.buffer = stream, !.rest = <<>>])

ClientInit ==
    /\ cli \in {Submitted(page, stream) : page \in Pages, stream \in ClientStreams}
    /\ sse = Unused
    /\ flush = Unused
    /\ NoRequest

\* The response arrived with a body: reader, buffer, the 120 s timer.
CliConnected ==
    /\ cli.pc = "fetch"
    /\ cli' = [cli EXCEPT !.pc = "read", !.timer = "armed"]
    /\ UNCHANGED <<server, sse, flush>>

\* fetch rejected, or the response was not ok: thrown before the reader
\* exists.
CliFetchFails ==
    /\ cli.pc = "fetch"
    /\ cli' = [Finally(Catch(cli, "Failed to fetch")) EXCEPT !.how = "error"]
    /\ UNCHANGED <<server, sse, flush>>

\* reader.read() delivers the next n characters.
CliRead(n) ==
    /\ cli.pc = "read"
    /\ ~cli.cancelled
    /\ n \in 1..Len(cli.rest)
    /\ cli' = Drain([cli EXCEPT !.buffer = @ \o SubSeq(cli.rest, 1, n),
                                !.rest = Slice(@, n)])
    /\ UNCHANGED <<server, sse, flush>>

\* reader.read() reports done (the body ended, or the reader was
\* cancelled): clearTimeout, then the finally block.
CliDone ==
    /\ cli.pc = "read"
    /\ cli.rest = <<>> \/ cli.cancelled
    /\ cli' = [Finally([cli EXCEPT !.timer = IF @ = "armed" THEN "cleared" ELSE @])
                  EXCEPT !.how = IF cli.cancelled THEN "watchdog" ELSE "eof"]
    /\ UNCHANGED <<server, sse, flush>>

\* reader.read() rejects: catch, then finally; the timer is not cleared.
CliReadFails ==
    /\ cli.pc = "read"
    /\ ~cli.cancelled
    /\ cli' = [Finally(Catch(cli, "network error")) EXCEPT !.how = "error"]
    /\ UNCHANGED <<server, sse, flush>>

\* The 120 s timer fires.
CliWatchdog ==
    /\ cli.timer = "armed"
    /\ cli' = [cli EXCEPT !.submitting = FALSE,
                          !.cancelled = TRUE,
                          !.byModel = MarkIncomplete(@, cli.selected, "Stream timeout"),
                          !.timer = "fired"]
    /\ UNCHANGED <<server, sse, flush>>

ClientNext ==
    \/ CliConnected
    \/ CliFetchFails
    \/ \E n \in 1..(3 * MaxLines) : CliRead(n)
    \/ CliDone
    \/ CliReadFails
    \/ CliWatchdog

ClientSpec == ClientInit /\ [][ClientNext]_vars

\* ------------------------------------------------------- the fold alone
\* The read loop of onSubmit on responses that hold every type of event,
\* with neither the watchdog nor a failure intervening.
FoldInit ==
    /\ cli \in {Submitted(page, stream) :
                 page \in Pages,
                 stream \in UNION {{Flatten(f) :
                                      f \in [1..n -> {Text(e) \o <<"\n">> : e \in FoldEvents}]} :
                                   n \in 0..MaxLines}}
    /\ sse = Unused
    /\ flush = Unused
    /\ NoRequest

FoldNext ==
    \/ CliConnected
    \/ \E n \in 1..(3 * MaxLines) : CliRead(n)
    \/ CliDone

FoldSpec == FoldInit /\ [][FoldNext]_vars

\* --------------------------------------------------- flushEventData calls
\* The payloads one read loop hands to flushEventData, one call after the
\* other: flush.payloads is what the upstream body holds, flush.next the
\* call about to be made.  The worker of the first model is in its read
\* loop, the other worker (if any) still waits for its upstream.
MaxPayloads == 2

\* JSON chunks by what choices[0].delta.content, delta.reasoning_content,
\* choices[0].text and choices[0].message.content hold: absent, "" or text.
Chunks ==
    {Payload("json", c, r, t, m, FALSE) :
        c \in {Null, "", "c"}, r \in {Null, "", "r"},
        t \in {Null, "t"}, m \in {Null, "m"}}
    \cup {UsagePayload, Payload("json", "c", Null, Null, Null, TRUE)}

\* The closure's variables when the first worker enters its read loop.
ReadLoopStart ==
    [log |-> <<StartEvent>> \o [t \in Tasks |-> Ev("model-start", t, "")],
     closed |-> FALSE, closeCount |-> 0, ended |-> FALSE, doneCount |-> 0,
     sawFirstToken |-> [t \in Tasks |-> FALSE],
     gotAnyToken |-> [t \in Tasks |-> FALSE],
     modelCompleted |-> [t \in Tasks |-> FALSE],
     pingArmed |-> [t \in Tasks |-> t = 1]]

FlushInit ==
    /\ flush \in {[payloads |-> ps, next |-> 1] :
                   ps \in UNION {[1..n -> Chunks \cup {EmptyPayload, DonePayload,
                                                       MalformedPayload}] :
                                    n \in 1..MaxPayloads}}
    /\ models \in {<<"a">>, <<"a", "b">>}
    /\ main = "awaitAll"
    /\ temperature = DefaultTemperature
    /\ log = ReadLoopStart.log
    /\ closed = ReadLoopStart.closed
    /\ closeCount = ReadLoopStart.closeCount
    /\ ended = ReadLoopStart.ended
    /\ doneCount = ReadLoopStart.doneCount
    /\ pc = [t \in Tasks |-> IF t = 1 THEN "read" ELSE "connect"]
    /\ sawFirstToken = ReadLoopStart.sawFirstToken
    /\ gotAnyToken = ReadLoopStart.gotAnyToken
    /\ modelCompleted = ReadLoopStart.modelCompleted
    /\ pingArmed = ReadLoopStart.pingArmed
    /\ stalled = [t \in Tasks |-> FALSE]
    /\ frames = 0
    /\ wdArmed = FALSE
    /\ wdElapsed = FALSE
    /\ fallbackCalls = [t \in Tasks |-> 0]
    /\ hist = [t \in Tasks |->
                 IF t = 1 THEN [NoHist EXCEPT !.connect = "ok"] ELSE NoHist]
    /\ body = Body(TRUE, Hi, models, Absent)
    /\ status = 200
    /\ calls = {Call(t, TRUE) : t \in Tasks}
    /\ sse = Unused
    /\ cli = Unused

\* flushEventData(dataStr) for the next payload of the body.
FlushCall ==
    /\ flush.next <= Len(flush.payloads)
    /\ pc[1] = "read"
    /\ LET p == flush.payloads[flush.next]
       IN  /\ Commit(FlushEventData(Cur, 1, p))
           /\ hist' = [hist EXCEPT ![1].deltas = @ + DeltaFrames(p),
                                   ![1].doneFrame = @ \/ p.kind = "done"]
    /\ frames' = frames + 1
    /\ flush' = [flush EXCEPT !.next = @ + 1]
    /\ UNCHANGED <<body, temperature, sse, cli, status, calls, models, main,
                   pc, stalled, wdArmed, wdElapsed, fallbackCalls>>

FlushNext == FlushCall

FlushSpec == FlushInit /\ [][FlushNext]_vars


\* ------------------------------------------------------------ vocabulary
EventsOf(t) == {i \in DOMAIN log : log[i].task = t}
TerminalsOf(t) == {i \in EventsOf(t) : log[i].type \in TerminalTypes}
OfType(t, type) == {i \in EventsOf(t) : log[i].type = type}
EndLines == {i \in DOMAIN log : log[i].type = "end"}
EndWritten == EndLines # {}

\* What the upstream did to task t, from the history alone.
FallbackFailed(t) == hist[t].fb \in {"rejected", "httpError", "unparsable"}
Failed(t) ==
    \/ hist[t].connect \in {"bad", "rejected"}
    \/ hist[t].end = "error"
    \/ FallbackFailed(t)
AllTerminal == \A t \in Tasks : TerminalsOf(t) # {}

\* ------------------------------------------------------------------ claims

\* C1: each task writes at most one terminal event to the response (one
\* model-done or one error, never both, never two of a kind), and a task
\* that has returned has written exactly one.
C1_OneTerminalPerTask ==
    \A t \in Tasks :
        /\ Cardinality(TerminalsOf(t)) <= 1
        /\ pc[t] = "returned" => Cardinality(TerminalsOf(t)) = 1

\* C1 witness: a worker that saw [DONE] and whose read then failed has
\* returned (markModelDone was called twice) while the response is open.
C1_Witness ==
    \E t \in Tasks :
        /\ pc[t] = "returned"
        /\ hist[t].doneFrame
        /\ hist[t].end = "error"
        /\ ~closed

\* C2: once a task has written its terminal event, no further event of
\* that task is written to the response.
C2_InertAfterTerminal ==
    \A t \in Tasks : \A i \in TerminalsOf(t) : \A j \in EventsOf(t) : j <= i

\* C3: end is written at most once, the body is closed at most once, and
\* no line follows end.
C3_EndOnceAndLast ==
    /\ Cardinality(EndLines) <= 1
    /\ closeCount <= 1
    /\ \A i \in EndLines : i = Len(log)

\* C3 witness: safeEnd has run from the last worker, after allSettled and
\* from the timer, and a worker tried to write after end (its fallback
\* delivered text after [DONE] had ended the single-model response).
C3_Witness ==
    /\ main = "done"
    /\ wdElapsed
    /\ ~wdArmed
    /\ \E t \in Tasks : hist[t].doneFrame /\ hist[t].fb = "text"
    /\ Len(models) = 1

\* C4: a step that writes end is taken when every task has written its
\* terminal event or when the watchdog duration has elapsed.
C4_EndNotEarly ==
    [][(~EndWritten /\ EndWritten') => (AllTerminal' \/ wdElapsed)]_vars

\* C4 witness: end written for a two-model request before the watchdog
\* duration elapsed.
C4_Witness ==
    /\ EndWritten
    /\ Len(models) = 2
    /\ ~wdElapsed
    /\ AllTerminal

\* C5: once the watchdog duration has elapsed, end has been written,
\* whether or not a worker is still outstanding.
C5_WatchdogForcesEnd == wdElapsed => EndWritten

\* C6: end is eventually written and the body closed (under FairSpec:
\* timers fire and every upstream that has not stalled answers).
C6_EndEventually == <>(EndWritten /\ closed)

\* C7: a task whose fallback returned non-empty text has, in this order,
\* exactly one ttfb, exactly one delta carrying that text, then its
\* model-done, all before end.
C7_FallbackTextDelivered ==
    \A t \in Tasks :
        (pc[t] = "returned" /\ hist[t].fb = "text") =>
            /\ Cardinality(OfType(t, "ttfb")) = 1
            /\ Cardinality(OfType(t, "delta")) = 1
            /\ \E i \in OfType(t, "ttfb"), j \in OfType(t, "delta"),
                  k \in OfType(t, "model-done") :
                   /\ log[j].text = "full"
                   /\ i < j
                   /\ j < k
                   /\ \A e \in EndLines : k < e

\* C8: a task whose fallback failed has an error event as its terminal
\* event and no model-done.
C8_FallbackFailureIsError ==
    \A t \in Tasks :
        (pc[t] = "returned" /\ FallbackFailed(t)) =>
            /\ OfType(t, "error") # {}
            /\ OfType(t, "model-done") = {}

\* C9: the fallback call is issued exactly once by a task whose streaming
\* call succeeded and whose stream ended with no delta observed, and never
\* by any other task.
FallbackDue(t) ==
    /\ hist[t].connect = "ok"
    /\ hist[t].end = "eof"
    /\ hist[t].deltas = 0

C9_FallbackExactlyWhenDue ==
    \A t \in Tasks : fallbackCalls[t] = IF FallbackDue(t) THEN 1 ELSE 0

\* C9 witness: one task fell back after a stream whose only frame was
\* [DONE]; another ended its stream after a delta without falling back.
C9_Witness ==
    \E t \in Tasks, u \in Tasks :
        /\ fallbackCalls[t] = 1
        /\ hist[t].doneFrame
        /\ hist[u].end = "eof"
        /\ hist[u].deltas > 0
        /\ fallbackCalls[u] = 0

\* C10: a task that failed (connect failure, read error or fallback
\* failure) has an error event; error events belong to failed tasks only;
\* a task that did not fail ends with model-done.
C10_FailureIsOwnErrorOnly ==
    \A t \in Tasks :
        /\ (pc[t] = "returned" /\ Failed(t)) => OfType(t, "error") # {}
        /\ OfType(t, "error") # {} => Failed(t)
        /\ (pc[t] = "returned" /\ ~Failed(t)) => OfType(t, "model-done") # {}

\* C11: the response holds exactly one start event; it is the first line,
\* so it precedes every model-start and every other event, and it carries
\* the requested model list and the resolved temperature.  Nothing is
\* written before the stream is opened.
C11_StartOnceAndFirst ==
    IF main \in {"awaitAll", "done"}
    THEN /\ Len(log) >= 1
         /\ log[1] = StartEvent
         /\ log[1].models = body.models
         /\ \A i \in DOMAIN log : log[i].type = "start" => i = 1
    ELSE log = <<>>

\* C11 witness: a finished two-model response whose start event carries a
\* temperature that was clamped.
C11_Witness ==
    /\ EndWritten
    /\ Len(models) = 2
    /\ AllTerminal
    /\ body.temperature = Num(30)
    /\ log[1].temperature = MaxTemperature

\* C12: once the stream is opened, the response holds one model-start per
\* task (k in all for k models), and the model-start of a task precedes
\* every other event of that task.
C12_ModelStartFirst ==
    main \in {"awaitAll", "done"} =>
        /\ Cardinality({i \in DOMAIN log : log[i].type = "model-start"}) = Len(models)
        /\ \A t \in Tasks :
               /\ Cardinality(OfType(t, "model-start")) = 1
               /\ \A i \in OfType(t, "model-start"), j \in EventsOf(t) : i <= j

\* C12 witness: both tasks of a two-model request have written events
\* after their model-start, one of them a ttfb and a delta.
C12_Witness ==
    /\ Len(models) = 2
    /\ AllTerminal
    /\ \E t \in Tasks : OfType(t, "ttfb") # {} /\ OfType(t, "delta") # {}

\* Lines of the response that carry the model identifier id.
Carrying(id) == {i \in DOMAIN log : log[i].task # 0 /\ log[i].modelId = id}

\* C13: all events carrying one model identifier come from one worker, so
\* the response holds one model-start and at most one terminal event per
\* identifier, also when the model list repeats an identifier.
C13_OneWorkerPerIdentifier ==
    \A t \in Tasks :
        /\ \A i \in Carrying(models[t]) : log[i].task = t
        /\ Cardinality({i \in Carrying(models[t]) : log[i].type = "model-start"}) <= 1
        /\ Cardinality({i \in Carrying(models[t]) : log[i].type \in TerminalTypes}) <= 1

\* The whole text, white space at its ends aside, is a decimal numeral:
\* an optional sign, digits, and an optional fraction.
IsNumeral(str) ==
    LET s0 == Trim(str)
        s1 == IF s0 # <<>> /\ Head(s0) \in {"-", "+"} THEN Tail(s0) ELSE s0
        n == DigitRun(s1)
        s2 == SubSeq(s1, n + 1, Len(s1))
    IN  \/ n >= 1 /\ s2 = <<>>
        \/ /\ s2 # <<>>
           /\ Head(s2) = "."
           /\ n + DigitRun(Tail(s2)) >= 1
           /\ DigitRun(Tail(s2)) = Len(s2) - 1

Numeric(raw) == raw.kind = "number" \/ (raw.kind = "string" /\ IsNumeral(raw.str))

NumericValue(raw) == IF raw.kind = "number" THEN raw.num ELSE ParseFloat(raw.str).val

\* C19: the temperature of the start event and of every upstream call of
\* an accepted request lies in [0,2]; a number or numeric string below 0
\* gives 0, above 2 gives 2, in range gives itself, and an absent or
\* non-numeric value gives 0.7.
C19_TemperatureResolved ==
    main \in {"awaitAll", "done"} =>
        LET raw == body.temperature
            v == NumericValue(raw)
        IN  /\ temperature \in MinTemperature..MaxTemperature
            /\ log[1].temperature = temperature
            /\ \A c \in calls : c.temperature = temperature
            /\ (Numeric(raw) /\ v < MinTemperature) => temperature = MinTemperature
            /\ (Numeric(raw) /\ v > MaxTemperature) => temperature = MaxTemperature
            /\ (Numeric(raw) /\ v \in MinTemperature..MaxTemperature) => temperature = v
            /\ ~Numeric(raw) => temperature = DefaultTemperature

\* The identifiers that contain "embed" in some mix of cases.
EmbedIds == {"Embed-1", "xEMBED"}

\* The bodies C20 is about.
Rejectable(b) ==
    \/ ~b.json
    \/ Len(b.prompt) = 0
    \/ Len(b.models) = 0
    \/ \E i \in DOMAIN b.models : b.models[i] \in EmbedIds

\* C20: a request whose body is malformed JSON, has an empty prompt, an
\* empty model list or an embedding model is answered 400 before any
\* streaming: no start event, no worker, no upstream call.
C20_RejectedBeforeStreaming ==
    (main # "received" /\ Rejectable(body)) =>
        /\ main = "rejected"
        /\ status = 400
        /\ log = <<>>
        /\ Tasks = {}
        /\ calls = {}

\* C20 witness: a body naming an embedding model in upper case next to a
\* chat model has been answered 400.
C20_Witness ==
    /\ main = "rejected"
    /\ status = 400
    /\ body.models = <<"a", "xEMBED">>

\* C14: whatever the chunk boundaries, the payloads handed to
\* flushEventData for an upstream body are those of the same body
\* delivered in one piece.
C14_ChunkingInvariant ==
    sse.done => sse.out = Unfragmented(sse.input)

\* C14 witness: the body "data:x\r\n\n" was delivered with a chunk ending
\* between \r and \n and yielded the payload x.
C14_Witness ==
    /\ sse.done
    /\ sse.cutAtCr
    /\ sse.input = DataPrefix \o <<"x", "\r", "\n", "\n">>
    /\ sse.out = << <<"x">> >>

\* C15: when the response has been read to its end, the per-model state
\* and the total time are those of the same stream read as one chunk.
C15_ChunkingInvariant ==
    (cli.pc = "returned" /\ cli.how = "eof") =>
        /\ cli.byModel = Whole(cli.page, cli.stream).byModel
        /\ cli.totalMs = Whole(cli.page, cli.stream).totalMs

IsPrefix(a, b) == Len(a) <= Len(b) /\ SubSeq(b, 1, Len(a)) = a

\* The texts of the delta events of model m among events, concatenated.
RECURSIVE DeltaTexts(_, _)
DeltaTexts(events, m) ==
    IF events = <<>> THEN <<>>
    ELSE (IF Head(events).type = "delta" /\ Head(events).modelId = m
          THEN Head(events).text ELSE <<>>) \o DeltaTexts(Tail(events), m)

\* The events on the complete lines of a stream, in stream order.
RECURSIVE EventsOfStream(_)
EventsOfStream(str) ==
    LET idx == IndexOf(str, "\n")
        line == Trim(SubSeq(str, 1, idx - 1))
    IN  IF idx = 0 THEN <<>>
        ELSE (IF IsJson(line) THEN <<JsonParse(line)>> ELSE <<>>)
                 \o EventsOfStream(Slice(str, idx))

\* a is b with some elements left out.
RECURSIVE IsSubseq(_, _)
IsSubseq(a, b) ==
    IF a = <<>> THEN TRUE
    ELSE IF b = <<>> THEN FALSE
    ELSE IF Head(a) = Head(b) THEN IsSubseq(Tail(a), Tail(b))
    ELSE IsSubseq(a, Tail(b))

C17_AllTerminalWhenReadEnds ==
    cli.pc = "returned" =>
        \A m \in Range(cli.selected) :
            /\ cli.byModel[m].isComplete
            /\ cli.byModel[m].latencyMs # Null \/ cli.byModel[m].error # Null

\* C18: the step of the watchdog cancels the reader, completes every
\* incomplete model of the submission with the timeout error and leaves
\* every other entry as it is; nothing is folded once it has fired.
C18_WatchdogMarksIncomplete ==
    [][/\ (cli.timer = "armed" /\ cli'.timer = "fired") =>
           /\ cli'.cancelled
           /\ DOMAIN cli'.byModel = DOMAIN cli.byModel
           /\ \A m \in DOMAIN cli.byModel :
                  cli'.byModel[m] =
                      IF m \in Range(cli.selected) /\ ~cli.byModel[m].isComplete
                      THEN [cli.byModel[m] EXCEPT !.error = "Stream timeout",
                                                  !.isComplete = TRUE]
                      ELSE cli.byModel[m]
       /\ cli.timer = "fired" =>
           /\ cli'.byModel = cli.byModel
           /\ cli'.folded = cli.folded]_vars

\* C18 witness: the watchdog fired during the read after model-done of a
\* and a delta of b had been folded; a kept its latency, b got the error.
C18_Witness ==
    /\ cli.how = "watchdog"
    /\ cli.byModel["a"].latencyMs = "5"
    /\ cli.byModel["a"].error = Null
    /\ cli.byModel["b"].content = <<"y">>
    /\ cli.byModel["b"].error = "Stream timeout"

\* Lines of the response that are terminal events, of any task.
Terminals == {i \in DOMAIN log : log[i].type \in TerminalTypes}

\* C21: end is written by the step that writes the k-th terminal event
\* (k the number of requested models): whenever the response holds k
\* terminal events or an end line, end is its last line and the line
\* before it is the k-th terminal event.
C21_EndFollowsLastTerminal ==
    (Cardinality(Terminals) >= Len(models) \/ EndWritten) =>
        /\ Cardinality(Terminals) = Len(models)
        /\ Len(log) >= 2
        /\ log[Len(log)].type = "end"
        /\ Len(log) - 1 \in Terminals

\* C21 witness: a two-model response has ended; a ping and a delta were
\* written before the second terminal event, and the worker of the first
\* terminal event went on (its read failed after [DONE]).
C21_Witness ==
    /\ EndWritten
    /\ Len(models) = 2
    /\ NumPings > 0
    /\ \E t \in Tasks : OfType(t, "delta") # {}
    /\ \E t \in Tasks : hist[t].doneFrame /\ hist[t].end = "error"

\* C22: a task writes at most one ttfb, each of its deltas comes after its
\* ttfb, and the line right after the ttfb is the first delta of that task.
C22_TtfbBeforeFirstDelta ==
    \A t \in Tasks :
        /\ Cardinality(OfType(t, "ttfb")) <= 1
        /\ \A j \in OfType(t, "delta") : \E i \in OfType(t, "ttfb") : i < j
        /\ \A i \in OfType(t, "ttfb") :
               /\ i + 1 \in OfType(t, "delta")
               /\ \A j \in OfType(t, "delta") : i + 1 <= j

\* C22 witness: one task streamed two deltas, another got its only delta
\* from the fallback call.
C22_Witness ==
    \E t \in Tasks, u \in Tasks :
        /\ Cardinality(OfType(t, "delta")) = 2
        /\ hist[u].fb = "text"
        /\ OfType(u, "ttfb") # {}
        /\ OfType(u, "delta") # {}

\* The first of the four candidate fields of a chunk that holds a
\* non-empty text, "" when none does.
FirstNonEmpty(chunk) ==
    IF chunk.content \notin {Null, ""} THEN chunk.content
    ELSE IF chunk.reasoning \notin {Null, ""} THEN chunk.reasoning
    ELSE IF chunk.text \notin {Null, ""} THEN chunk.text
    ELSE IF chunk.message \notin {Null, ""} THEN chunk.message
    ELSE ""

\* C23: the text of the delta event written for a parsed upstream payload
\* is the first non-empty value among delta content, reasoning content,
\* plain text and message content: a flushEventData call on an open
\* response writes one delta with that text when there is one, and no
\* delta when all four are absent or empty.  In particular a payload whose
\* delta content is "" and whose reasoning content is non-empty yields a
\* delta carrying the reasoning content.
C23_FirstNonEmptyDelta ==
    [][FlushCall =>
        LET p == flush.payloads[flush.next]
            want == IF p.kind = "json" THEN FirstNonEmpty(p) ELSE ""
            NewDeltas == {i \in DOMAIN log' \ DOMAIN log : log'[i].type = "delta"}
        IN  IF want = "" \/ closed
            THEN NewDeltas = {}
            ELSE \E i \in NewDeltas :
                    /\ NewDeltas = {i}
                    /\ log'[i].task = 1
                    /\ log'[i].text = want]_vars

\* The payloads flushEventData does not return on at once (if (!dataStr)).
NonEmpty(out) == SelectSeq(out, LAMBDA d : d # <<>>)

\* C24: at the end of the input a payload that was accumulated but not
\* terminated by a blank line is flushed as one final event: a body whose
\* last frame lacks its blank line, or its final newline, gives the same
\* payloads as the same body with the terminator (a line end and a blank
\* line), also when the last frame has several data lines.
C24_UnterminatedLastFrame ==
    sse.done => NonEmpty(sse.out) = NonEmpty(Unfragmented(sse.input \o <<"\n", "\n">>))

\* The members of a set of line numbers in increasing order.
RECURSIVE Ascending(_)
Ascending(S) ==
    IF S = {} THEN <<>>
    ELSE LET least == CHOOSE i \in S : \A j \in S : i <= j
         IN  <<least>> \o Ascending(S \ {least})

\* The payloads of the frames of str that a blank line terminates, frame
\* by frame: the complete lines of str, the blank ones among them, for a
\* blank line j the values of the data lines since the previous blank
\* line, and their join for every j that has such lines.  Values and
\* payloads are taken without the white space around them.
FramePayloads(str) ==
    LET pieces == SplitLines(str)
        L == [i \in 1..(Len(pieces) - 1) |-> Trim(pieces[i])]
        Blank == {j \in DOMAIN L : L[j] = <<>>}
        First(j) == IF \E b \in Blank : b < j
                    THEN 1 + CHOOSE b \in Blank :
                                 b < j /\ \A c \in Blank : c < j => c <= b
                    ELSE 1
        DataLines(j) == SelectSeq(SubSeq(L, First(j), j - 1),
                                  LAMBDA l : StartsWith(l, DataPrefix))
        Values(j) == [i \in DOMAIN DataLines(j) |-> Trim(Slice(DataLines(j)[i], 5))]
        Ends == Ascending({j \in Blank : Len(DataLines(j)) > 0})
    IN  [k \in DOMAIN Ends |-> Trim(JoinLines(Values(Ends[k])))]

\* C25: the read loop hands over one payload per frame that a blank line
\* terminates: the frame's data lines, data: prefix stripped, joined by a
\* single newline in their order.  Lines that are not data lines add
\* nothing, and a blank line with no data line accumulated gives no
\* payload.  (Stated of the payloads handed over while the body is read,
\* before the flushes at the end of the input.)
C25_OnePayloadPerFrame ==
    ~sse.done =>
        NonEmpty(sse.out) =
            NonEmpty(FramePayloads(SubSeq(sse.input, 1, Len(sse.input) - Len(sse.rest))))

\* C25 witness: a frame of two data lines, read to its blank line, has
\* given the one payload "y\nx".
C25_Witness ==
    /\ ~sse.done
    /\ sse.rest = <<>>
    /\ sse.input = DataY \o DataPrefix \o <<"x", "\n", "\n">>
    /\ sse.out = << <<"y", "\n", "x">> >>

\* The payloads flushEventData has been called with so far.
Handled == SubSeq(flush.payloads, 1, flush.next - 1)

\* The closure's variables after flushEventData calls of the first worker
\* with the payloads ps, from s on.
RECURSIVE FlushAll(_, _)
FlushAll(s, ps) ==
    IF ps = <<>> THEN s ELSE FlushAll(FlushEventData(s, 1, Head(ps)), Tail(ps))

\* C26: a payload that is not valid JSON (and not [DONE]) is dropped: it
\* writes no event, does not fail the task and leaves the task's flags as
\* they are, and the payloads after it are processed as usual.  So the
\* response and the flags are at every point what the payloads handled so
\* far give with the invalid ones left out, and the worker is still in
\* its read loop.
C26_MalformedDropped ==
    /\ Cur = FlushAll(ReadLoopStart,
                      SelectSeq(Handled, LAMBDA p : p.kind # "malformed"))
    /\ pc[1] = "read"

\* C26 witness: an invalid payload, then a chunk whose delta was written.
C26_Witness ==
    /\ Handled = <<MalformedPayload, Payload("json", "c", Null, Null, Null, TRUE)>>
    /\ OfType(1, "delta") # {}
    /\ OfType(1, "usage") # {}
    /\ TerminalsOf(1) = {}

\* C27: while the response is open, a ping is written at the next
\* keepalive check whenever nothing was written for the staleness window,
\* in every phase of the request, also while all workers are connecting
\* or are in their fallback call.  Time is not measured here: the upstreams
\* may stay silent for a full window at any point, so the ping can only be
\* written if a keepalive check is pending (some interval is set) whenever
\* the response is open (opened and not closed).
C27_KeepaliveInEveryPhase ==
    (main = "awaitAll" /\ ~closed) => \E t \in Tasks : pingArmed[t]

\* C28: once the client has folded end it stops reading: what follows end
\* in the stream, in the same chunk or in a later one, is not folded and
\* changes neither the per-model state nor the total time.
C28_NothingAfterEnd ==
    [][((\E i \in DOMAIN cli.folded : cli.folded[i].type = "end")
          /\ cli'.rest # cli.rest) =>
           /\ cli'.folded = cli.folded
           /\ cli'.byModel = cli.byModel
           /\ cli'.totalMs = cli.totalMs]_vars

\* C29: once the read of a submission has terminated (after end, at the
\* end of the stream or by a transport error), the watchdog of that
\* submission never fires.
C29_NoWatchdogAfterRead ==
    [][cli.pc = "returned" => ~(cli.timer = "armed" /\ cli'.timer = "fired")]_vars

\* The lines of a response, each with its newline.
RECURSIVE LinesOf(_)
LinesOf(str) ==
    LET idx == IndexOf(str, "\n")
    IN  IF idx = 0 THEN <<>>
        ELSE <<SubSeq(str, 1, idx)>> \o LinesOf(Slice(str, idx))

\* end, if the response has one, is its last event (as the server writes
\* it).
EndLast(str) ==
    LET events == EventsOfStream(str)
    IN  \A i \in DOMAIN events : events[i].type = "end" => i = Len(events)

\* The responses made of the same lines as str in which the events of
\* each model keep their relative order and end stays last.
Interleavings(str) ==
    LET lines == LinesOf(str)
        ModelEvents(r, m) == SelectSeq(EventsOfStream(r), LAMBDA e : e.modelId = m)
        all == {Flatten([i \in DOMAIN lines |-> lines[f[i]]]) :
                   f \in Permutations(DOMAIN lines)}
    IN  {other \in all :
            /\ EndLast(other)
            /\ \A m \in Range(Selected) : ModelEvents(other, m) = ModelEvents(str, m)}

\* C30: the final per-model state does not depend on how the events of
\* different models are interleaved: a response read to its end leaves,
\* for every model, the state that any other response leaves which has
\* the same events and keeps each model's events in their relative order.
C30_InterleavingIndependent ==
    (cli.pc = "returned" /\ cli.how = "eof" /\ EndLast(cli.stream)) =>
        \A other \in Interleavings(cli.stream) :
            Whole(cli.page, other).byModel = cli.byModel

\* C30 witness: a response with a delta of a, a delta of b and model-done
\* of a, which has three interleavings, was read to its end.
C30_Witness ==
    /\ cli.pc = "returned"
    /\ cli.how = "eof"
    /\ Len(cli.folded) = 3
    /\ cli.folded[1].type = "delta" /\ cli.folded[1].modelId = "a"
    /\ cli.folded[2].type = "delta" /\ cli.folded[2].modelId = "b"
    /\ cli.folded[3].type = "model-done"
    /\ Cardinality(Interleavings(cli.stream)) = 3
    /\ cli.byModel["a"].isComplete
    /\ cli.byModel["b"].content = <<"y">>

\* C31: when the read of the client fails with a transport error, every
\* model of the submission that is not complete yet becomes complete with
\* the message of that error, the state of every complete model is left as
\* it is, and the failure is reported to the user exactly once: one toast
\* in the step of the failure and none afterwards.
C31_TransportErrorMarksIncomplete ==
    /\ [][(cli.how = "none" /\ cli'.how = "error") =>
            /\ cli'.toasts = cli.toasts + 1
            /\ DOMAIN cli'.byModel = DOMAIN cli.byModel
            /\ \E message \in {"Failed to fetch", "network error"} :
                 \A m \in DOMAIN cli.byModel :
                    cli'.byModel[m] =
                        IF m \in Range(cli.selected) /\ ~cli.byModel[m].isComplete
                        THEN [cli.byModel[m] EXCEPT !.error = message,
                                                    !.isComplete = TRUE]
                        ELSE cli.byModel[m]]_vars
    /\ [](cli.toasts = IF cli.how = "error" THEN 1 ELSE 0)

\* C31 witness: the read failed after model-done of a was folded; a kept
\* its latency and has no error, b carries the message, one toast.
C31_Witness ==
    /\ cli.how = "error"
    /\ cli.byModel["a"].isComplete
    /\ cli.byModel["a"].latencyMs = "5"
    /\ cli.byModel["a"].error = Null
    /\ cli.byModel["b"].error = "network error"
    /\ cli.byModel["b"].isComplete
    /\ cli.toasts = 1

\* What the client has received of the response so far.
Received == SubSeq(cli.stream, 1, Len(cli.stream) - Len(cli.rest))

\* C32: a line of the response that is not valid JSON is dropped without
\* aborting the read: it leaves the per-model state as it is and the lines
\* after it are still folded.  So the folded events are at every point the
\* events on the lines received, and as long as neither the watchdog nor a
\* transport error has intervened the per-model state is the one the
\* received text gives without its invalid lines.  (Responses with end as
\* their last event; what follows end is the subject of C28.)
C32_InvalidLineDropped ==
    EndLast(cli.stream) =>
        /\ cli.folded = EventsOfStream(Received)
        /\ (cli.how \in {"none", "eof"} /\ cli.timer # "fired") =>
               cli.byModel =
                   Whole(cli.page,
                         Flatten(SelectSeq(LinesOf(Received),
                             LAMBDA l : IsJson(Trim(SubSeq(l, 1, Len(l) - 1)))))).byModel

\* C32 witness: an invalid line came first, the delta and the model-done
\* of a after it were folded, and the read ended with the stream.
C32_Witness ==
    /\ cli.how = "eof"
    /\ cli.stream = <<"junk", "\n">>
                      \o Text(ClientEvent("delta", "a", <<"x">>, Null, Null, Null)) \o <<"\n">>
                      \o Text(ClientEvent("model-done", "a", <<>>, Null, "5", Null)) \o <<"\n">>
    /\ Len(cli.folded) = 2
    /\ cli.byModel["a"].content = <<"x">>
    /\ cli.byModel["a"].isComplete

\* C33: folding a ping, a start or an event of an unknown type leaves the
\* per-model state and the total time of the client as they are: at every
\* point of the read the state is the one the received text gives without
\* those lines (for responses with end as their last event), and folding
\* one more such event into the current state changes neither.
C33_NeutralEventsIgnored ==
    /\ EndLast(cli.stream) =>
           LET rest == Flatten(SelectSeq(LinesOf(Received),
                          LAMBDA l : JsonParse(Trim(SubSeq(l, 1, Len(l) - 1)))
                                         \notin NeutralEvents))
           IN  /\ cli.byModel = Whole(cli.page, rest).byModel
               /\ cli.totalMs = Whole(cli.page, rest).totalMs
    /\ \A e \in NeutralEvents :
           /\ Dispatch(cli, e).byModel = cli.byModel
           /\ Dispatch(cli, e).totalMs = cli.totalMs

\* C33 witness: a delta of a, then a ping and an event of unknown type
\* were folded; the state of a is that of the delta alone.
C33_Witness ==
    /\ Len(cli.folded) = 3
    /\ cli.folded[1].type = "delta" /\ cli.folded[1].modelId = "a"
    /\ cli.folded[2].type = "ping"
    /\ cli.folded[3].type = "hello"
    /\ cli.byModel["a"] = [Fresh EXCEPT !.content = <<"x">>]
    /\ cli.byModel["b"] = Fresh
    /\ cli.totalMs = Null

\* C38: folding a model-scoped event (model-start, ttfb, delta, usage,
\* model-done, error) of model m changes only the entry of m: a step of
\* the read loop leaves the entry of every model as it is unless it folds
\* an event of that model.
C38_OnlyOwnEntry ==
    [][\A m \in DOMAIN cli.byModel :
          (\A i \in (Len(cli.folded) + 1)..Len(cli'.folded) :
               cli'.folded[i].modelId # m) =>
              /\ m \in DOMAIN cli'.byModel
              /\ cli'.byModel[m] = cli.byModel[m]]_vars

\* C38 witness: after a delta of b, a ttfb and the model-done of a were
\* folded; the entry of b holds its delta and nothing else.
C38_Witness ==
    /\ Len(cli.folded) = 3
    /\ cli.folded[1].type = "delta" /\ cli.folded[1].modelId = "b"
    /\ cli.folded[2].type = "ttfb"
    /\ cli.folded[3].type = "model-done"
    /\ cli.byModel["b"] = [Fresh EXCEPT !.content = <<"y">>]
    /\ cli.byModel["a"] = [Fresh EXCEPT !.ttfbMs = "3", !.latencyMs = "5",
                                        !.isComplete = TRUE]

\* C37: the completion flag of a model is monotonic within a submission:
\* once isComplete of a model is true (after model-done, error, the
\* watchdog or a transport failure), no later step sets it back to false.
C37_CompleteIsMonotonic ==
    [][\A m \in DOMAIN cli.byModel :
          cli.byModel[m].isComplete =>
              /\ m \in DOMAIN cli'.byModel
              /\ cli'.byModel[m].isComplete]_vars

\* C34: in every state of the orchestrator the completion counter equals
\* the number of terminal events (model-done and error) issued so far, and
\* it never exceeds the number of requested models.
C34_DoneCountIsTerminals ==
    /\ doneCount = Cardinality(Terminals)
    /\ doneCount <= Len(models)

\* C34 witness: both workers of a two-model request are counted, one of
\* which called markModelDone twice ([DONE], then the end of its body).
C34_Witness ==
    /\ Len(models) = 2
    /\ doneCount = 2
    /\ \E t \in Tasks : hist[t].doneFrame /\ hist[t].end = "eof"
    /\ \E t \in Tasks : OfType(t, "error") # {}

\* C35: the fan-out runs each worker up to its first suspension: in every
\* response the k model-start events directly follow start, in the order
\* of the request's model list, and so precede every ttfb, delta, usage,
\* ping and terminal event of every task.
C35_ModelStartsFollowStart ==
    main \in {"awaitAll", "done"} =>
        /\ Len(log) >= 1 + Len(models)
        /\ log[1].type = "start"
        /\ \A t \in Tasks : log[1 + t] = Ev("model-start", t, "")
        /\ \A i \in DOMAIN log :
               i > 1 + Len(models) => log[i].type \notin {"start", "model-start"}

\* C35 witness: a two-model response that holds, after its three opening
\* lines, a ping, a delta and a terminal event.
C35_Witness ==
    /\ Len(models) = 2
    /\ Len(log) > 3
    /\ log[2].modelId = "a" /\ log[3].modelId = "b"
    /\ NumPings > 0
    /\ \E t \in Tasks : OfType(t, "delta") # {}
    /\ Terminals # {}

\* C36: every keepalive interval a worker sets is cleared by the time the
\* worker returns, on every path (end of the body, [DONE], read error,
\* failure of the fallback), so that no worker writes a ping after its
\* terminal event and none is written after end: an interval is set only
\* for a worker that is in its read loop and has no terminal event, never
\* once end is written, and a ping is written only by a set interval.
C36_IntervalCleared ==
    /\ [](\A t \in Tasks :
             pingArmed[t] =>
                 /\ pc[t] = "read"
                 /\ TerminalsOf(t) = {}
                 /\ ~EndWritten)
    /\ [][(Len(log') = Len(log) + 1 /\ log'[Len(log')].type = "ping") =>
              \E t \in Tasks : pingArmed[t]]_vars

\* C36 witness: a ping was written while a worker was reading, its body
\* ended, its fallback call failed and the worker has returned with its
\* interval cleared; another worker returned after [DONE].
C36_Witness ==
    /\ NumPings > 0
    /\ \E t \in Tasks :
           /\ pc[t] = "returned"
           /\ hist[t].connect = "ok"
           /\ hist[t].fb = "rejected"
           /\ ~pingArmed[t]
    /\ \E t \in Tasks :
           /\ pc[t] = "returned"
           /\ hist[t].doneFrame
           /\ ~pingArmed[t]

====
